---- MODULE Spec2Model ----
(***************************************************************************)
(* ClimaShield: the climate insight engine (src/src/insight-engine.py),    *)
(* the per-area forecast job (src/src/ml-engine.py) and the dashboard      *)
(* (src/streamlit_app.py) as state machines.                               *)
(*                                                                         *)
(* Numbers.  The program computes in binary floating point.  The model     *)
(* computes in exact rationals <<n, d>> (d > 0, lowest terms).  Python's   *)
(* round(x, 1) rounds the stored double to the nearest tenth, half to      *)
(* even; a value whose exact rational is half-way between two tenths is    *)
(* stored a little above or below the half, so the model lets round(x, 1)  *)
(* return either neighbouring tenth there and the single nearest tenth     *)
(* everywhere else.  Every operator that rounds therefore yields the SET   *)
(* of its possible results.                                                *)
(***************************************************************************)
EXTENDS Integers, Sequences, FiniteSets, TLC

(***************************************************************************)
(* Bounds of the model.                                                    *)
(***************************************************************************)
MaxObs == 2
MaxSoil == 1
MaxData == 4
MaxRecords == 2
MaxSeries == 3

(***************************************************************************)
(* Exact rational arithmetic.                                              *)
(***************************************************************************)
Abs(n) == IF n < 0 THEN -n ELSE n

RECURSIVE GCD(_, _)
GCD(a, b) == IF b = 0 THEN a ELSE GCD(b, a % b)

Norm(n, d) ==
    LET s == IF d < 0 THEN -1 ELSE 1
        g == GCD(Abs(n), Abs(d))
    IN  <<(s * n) \div g, (s * d) \div g>>

R(n) == <<n, 1>>
LCM(a, b) == (a \div GCD(a, b)) * b
RAdd(a, b) ==
    LET l == LCM(a[2], b[2])
    IN  Norm(a[1] * (l \div a[2]) + b[1] * (l \div b[2]), l)
RNeg(a) == <<-a[1], a[2]>>
RSub(a, b) == RAdd(a, RNeg(b))
RMul(a, b) ==
    LET g1 == GCD(Abs(a[1]), b[2])
        g2 == GCD(Abs(b[1]), a[2])
    IN  Norm((a[1] \div g1) * (b[1] \div g2), (a[2] \div g2) * (b[2] \div g1))
RDiv(a, b) == RMul(a, Norm(b[2], b[1]))
RLt(a, b) == a[1] * b[2] < b[1] * a[2]
RAbs(a) == <<Abs(a[1]), a[2]>>
\* Python's max(a, b) and min(a, b): the first argument unless the second is
\* strictly larger (smaller).
RMax(a, b) == IF RLt(a, b) THEN b ELSE a
RMin(a, b) == IF RLt(b, a) THEN b ELSE a

RECURSIVE SumSeq(_)
SumSeq(s) == IF s = <<>> THEN 0 ELSE s[1] + SumSeq(Tail(s))

\* numpy.mean of a non-empty sequence of integers
Mean(s) == Norm(SumSeq(s), Len(s))

\* round(x, 1): the possible results, as rationals
Round1(x) ==
    LET t   == (10 * x[1]) \div x[2]
        rem == 10 * x[1] - t * x[2]
    IN  IF 2 * rem < x[2] THEN {Norm(t, 10)}
        ELSE IF 2 * rem > x[2] THEN {Norm(t + 1, 10)}
        ELSE {Norm(t, 10), Norm(t + 1, 10)}

(***************************************************************************)
(* Text cells: str.replace(old, '') and the conversion astype(float).      *)
(***************************************************************************)
RECURSIVE StrReplace(_, _, _)
StrReplace(s, old, new) ==
    IF Len(s) < Len(old) THEN s
    ELSE IF SubSeq(s, 1, Len(old)) = old
         THEN new \o StrReplace(SubSeq(s, Len(old) + 1, Len(s)), old, new)
         ELSE SubSeq(s, 1, 1) \o StrReplace(SubSeq(s, 2, Len(s)), old, new)

Digits == {"0", "1", "2", "3", "4", "5", "6", "7", "8", "9"}
DigitVal(c) ==
    CASE c = "0" -> 0 [] c = "1" -> 1 [] c = "2" -> 2 [] c = "3" -> 3
      [] c = "4" -> 4 [] c = "5" -> 5 [] c = "6" -> 6 [] c = "7" -> 7
      [] c = "8" -> 8 [] c = "9" -> 9

RECURSIVE Strip(_)
Strip(s) ==
    IF Len(s) = 0 THEN s
    ELSE IF SubSeq(s, 1, 1) = " " THEN Strip(SubSeq(s, 2, Len(s)))
    ELSE IF SubSeq(s, Len(s), Len(s)) = " " THEN Strip(SubSeq(s, 1, Len(s) - 1))
    ELSE s

RECURSIVE AllDigits(_)
AllDigits(s) ==
    Len(s) = 0 \/ (SubSeq(s, 1, 1) \in Digits /\ AllDigits(SubSeq(s, 2, Len(s))))

RECURSIVE DigitsValue(_)
DigitsValue(s) ==
    IF Len(s) = 0 THEN 0
    ELSE 10 * DigitsValue(SubSeq(s, 1, Len(s) - 1)) + DigitVal(SubSeq(s, Len(s), Len(s)))

\* float(s) for the decimal integers the tables hold ("1317", "-50"); any
\* other text raises ValueError (ok = FALSE).
ToFloat(s) ==
    LET t    == Strip(s)
        neg  == Len(t) > 0 /\ SubSeq(t, 1, 1) = "-"
        body == IF neg THEN SubSeq(t, 2, Len(t)) ELSE t
    IN  IF Len(body) > 0 /\ AllDigits(body)
        THEN [ok |-> TRUE, val |-> R(IF neg THEN -DigitsValue(body) ELSE DigitsValue(body))]
        ELSE [ok |-> FALSE, val |-> R(0)]

\* 'sub' in s
Contains(sub, s) ==
    \E i \in 1..(Len(s) - Len(sub) + 1) : SubSeq(s, i, i + Len(sub) - 1) = sub

(***************************************************************************)
(* Data tables.  A DataFrame is its set of column names and its rows in    *)
(* file order; a row maps each column name to the cell.  An attribute that *)
(* is still None is the table with isNone = TRUE.                          *)
(***************************************************************************)
NoneTable == [isNone |-> TRUE, columns |-> {}, rows |-> <<>>]
DataFrame(cols, rows) == [isNone |-> FALSE, columns |-> cols, rows |-> rows]

AQIColumns == {"Area", "Year", "AQI", "Rainfall (mm)"}
SoilColumns == {"Area", "Soil Type", "Elevation (m)"}
PredictionColumns == {"Year", "Area", "AQI", "Rainfall_mm"}

ObsRow(a, y, q, c) == ("Area" :> a @@ "Year" :> y @@ "AQI" :> q @@ "Rainfall (mm)" :> c)
SoilRow(a, t, e) == ("Area" :> a @@ "Soil Type" :> t @@ "Elevation (m)" :> e)

BoundedSeq(S, n) == UNION {[1..k -> S] : k \in 0..n}

\* df[name] = values: the table with one more column
WithColumn(df, name, values) ==
    [df EXCEPT !.columns = @ \cup {name},
               !.rows = [i \in 1..Len(df.rows) |->
                           [k \in DOMAIN df.rows[i] \cup {name} |->
                              IF k = name THEN values[i] ELSE df.rows[i][k]]]]

\* df[df['Area'] == area]
FilterArea(df, area) == SelectSeq(df.rows, LAMBDA r : r["Area"] = area)

Column(rows, name) == [i \in 1..Len(rows) |-> rows[i][name]]

VARIABLES
    files,               \* the three CSV files on disk
    engine,              \* "none" before ClimateInsightEngine(...), then "constructed"
    aqi_rainfall_data,   \* self.aqi_rainfall_data
    soil_elevation_data, \* self.soil_elevation_data
    predictions_data,    \* self.predictions_data
    soil_absorption_map, \* self.soil_absorption_map
    ret,                 \* the last call on the engine and how it ended
    pc,                  \* where main() of the forecast job stands
    data,                \* its local data
    models,              \* its local models: the dict, as its items in insertion order
    results_df,          \* its local results_df
    callers,             \* the threads calling the engine: each one's call in progress
    session_state,       \* st.session_state of the dashboard, but for its key 'engine'
    run                  \* the last run of the dashboard's main(): the button whose
                         \* click started it, the exception that ended it, and the
                         \* buttons it put on the page

engineVars == <<files, engine, aqi_rainfall_data, soil_elevation_data,
                predictions_data, soil_absorption_map, ret>>
forecastVars == <<pc, data, models, results_df>>
callerVars == <<callers>>
dashboardVars == <<session_state, run>>
vars == <<files, engine, aqi_rainfall_data, soil_elevation_data,
          predictions_data, soil_absorption_map, ret, pc, data, models, results_df,
          callers, session_state, run>>

EmptyDict == [k \in {} |-> 0]
Return(v) == [exc |-> "None", value |-> v]
Raise(e) == [exc |-> e, value |-> EmptyDict]

(***************************************************************************)
(* ClimateInsightEngine.__init__, load_data and _clean_data                *)
(***************************************************************************)
SoilAbsorptionMap ==
    ("Clayey Soil" :> 2 @@ "Red Loamy Soil" :> 7 @@ "Laterite Soil" :> 5
       @@ "Sandy Soil" :> 9 @@ "Black Cotton Soil" :> 1 @@ "Alluvial Soil" :> 6)

\* pd.read_csv(path): the table, or FileNotFoundError
read_csv(f) == IF f.exists THEN Return(DataFrame(f.columns, f.rows))
              ELSE Raise("FileNotFoundError")

\* df[col].str.replace(suffix, '').astype(float): the float column, or ValueError
CleanColumn(df, col, suffix) ==
    LET conv == [i \in 1..Len(df.rows) |-> ToFloat(StrReplace(df.rows[i][col], suffix, ""))]
    IN  IF \A i \in 1..Len(df.rows) : conv[i].ok
        THEN Return([i \in 1..Len(df.rows) |-> conv[i].val])
        ELSE Raise("ValueError")

\* _clean_data on the two tables: the tables as it leaves them, and the
\* exception that ended it
clean_data(aqi, soil) ==
    LET ra   == CleanColumn(aqi, "Rainfall (mm)", " mm")
        aqi1 == IF "Rainfall (mm)" \in aqi.columns
                THEN WithColumn(aqi, "Rainfall", ra.value) ELSE aqi
        rs   == CleanColumn(soil, "Elevation (m)", " meters")
    IN  IF "Rainfall (mm)" \in aqi.columns /\ ra.exc # "None"
        THEN [exc |-> ra.exc, aqi |-> aqi, soil |-> soil]
        ELSE IF "Elevation (m)" \in soil.columns /\ rs.exc # "None"
        THEN [exc |-> rs.exc, aqi |-> aqi1, soil |-> soil]
        ELSE [exc |-> "None", aqi |-> aqi1,
              soil |-> IF "Elevation (m)" \in soil.columns
                       THEN WithColumn(soil, "Elevation", rs.value) ELSE soil]

\* load_data: the three attributes after its try/except, and the exception
\* its handler printed and swallowed ("None" when loading succeeded)
load_data(f) ==
    LET a == read_csv(f.aqi)
        s == read_csv(f.soil)
        p == read_csv(f.predictions)
        c == clean_data(a.value, s.value)
    IN  IF a.exc # "None"
        THEN [caught |-> a.exc, aqi |-> NoneTable, soil |-> NoneTable, pred |-> NoneTable]
        ELSE IF s.exc # "None"
        THEN [caught |-> s.exc, aqi |-> a.value, soil |-> NoneTable, pred |-> NoneTable]
        ELSE IF p.exc # "None"
        THEN [caught |-> p.exc, aqi |-> a.value, soil |-> s.value, pred |-> NoneTable]
        ELSE [caught |-> c.exc, aqi |-> c.aqi, soil |-> c.soil, pred |-> p.value]

\* engine = ClimateInsightEngine(api_key)
Construct ==
    /\ engine = "none"
    /\ LET l == load_data(files)
       IN  /\ aqi_rainfall_data' = l.aqi
           /\ soil_elevation_data' = l.soil
           /\ predictions_data' = l.pred
           /\ ret' = [op |-> "__init__", args |-> <<>>, collab |-> "unused",
                      exc |-> "None", value |-> [caught |-> l.caught]]
    /\ soil_absorption_map' = SoilAbsorptionMap
    /\ engine' = "constructed"
    /\ UNCHANGED <<files, forecastVars, callerVars, dashboardVars>>

(***************************************************************************)
(* analyze_historical_trends                                               *)
(***************************************************************************)
RECURSIVE RSum(_)
RSum(s) == IF s = <<>> THEN R(0) ELSE RAdd(s[1], RSum(Tail(s)))

\* numpy.mean of a non-empty sequence of numbers
RMean(s) == RDiv(RSum(s), R(Len(s)))

\* np.polyfit(range(len(v)), v, 1)[0]: the least-squares slope of the values
\* against their positions 0, 1, 2, ... (len(v) > 1)
IndexSlope(v) ==
    LET n   == Len(v)
        si  == SumSeq([i \in 1..n |-> i - 1])
        sii == SumSeq([i \in 1..n |-> (i - 1) * (i - 1)])
        sy  == RSum(v)
        siy == RSum([i \in 1..n |-> RMul(R(i - 1), v[i])])
    IN  RDiv(RSub(RMul(R(n), siy), RMul(R(si), sy)), R(n * sii - si * si))

optimal_rainfall == 1200

\* a clamp that forgets the floor of 1
Clamp_NoFloor(x) == RMin(R(10), x)

Clamp(x) == RMax(R(1), RMin(R(10), x))

\* the two scores before round(., 1)
AqiScore(avg_aqi) == Clamp(RSub(R(10), RMul(RDiv(avg_aqi, R(50)), R(9))))
RainfallScore(avg_rainfall) ==
    LET rainfall_deviation ==
            RDiv(RAbs(RSub(avg_rainfall, R(optimal_rainfall))), R(optimal_rainfall))
    IN  Clamp(RSub(R(10), RMul(rainfall_deviation, R(9))))

\* The slope is the least-squares solution numpy computes in binary floating
\* point (scaled Vandermonde matrix, LAPACK's SVD solver), so it carries the
\* solver's rounding error: a slope that is exactly a threshold comes out at,
\* a little above or a little below the threshold, and the comparison goes
\* either way there.  Off the threshold the comparison is that of the exact
\* slope.  Each operator yields the set of labels the call can produce.

\* the comparison aqi_slope > 2 moved to rainfall's threshold
AqiTrend_Threshold10(aqi_values) ==
    IF Len(aqi_values) > 1
    THEN LET aqi_slope == IndexSlope(aqi_values)
         IN  IF RLt(R(10), aqi_slope) THEN {"worsening"}
             ELSE IF RLt(aqi_slope, R(-10)) THEN {"improving"}
             ELSE {"stable"}
    ELSE {"stable"}

AqiTrend(aqi_values) ==
    IF Len(aqi_values) > 1
    THEN LET aqi_slope == IndexSlope(aqi_values)
         IN  IF aqi_slope = R(2) THEN {"worsening", "stable"}
             ELSE IF aqi_slope = R(-2) THEN {"improving", "stable"}
             ELSE IF RLt(R(2), aqi_slope) THEN {"worsening"}
             ELSE IF RLt(aqi_slope, R(-2)) THEN {"improving"}
             ELSE {"stable"}
    ELSE {"stable"}

RainfallTrend(rainfall_values) ==
    IF Len(rainfall_values) > 1
    THEN LET rainfall_slope == IndexSlope(rainfall_values)
         IN  IF rainfall_slope = R(10) THEN {"increasing", "stable"}
             ELSE IF rainfall_slope = R(-10) THEN {"decreasing", "stable"}
             ELSE IF RLt(R(10), rainfall_slope) THEN {"increasing"}
             ELSE IF RLt(rainfall_slope, R(-10)) THEN {"decreasing"}
             ELSE {"stable"}
    ELSE {"stable"}

\* the defaults with the label of an area that has a single observation
NoHistoricalData_Stable ==
    [aqi_trend |-> "stable",
     rainfall_trend |-> "stable",
     aqi_score |-> R(5),
     rainfall_score |-> R(5),
     data_years |-> <<>>]

NoHistoricalData ==
    [aqi_trend |-> "No data available",
     rainfall_trend |-> "No data available",
     aqi_score |-> R(5),
     rainfall_score |-> R(5),
     data_years |-> <<>>]

\* The possible outcomes of analyze_historical_trends(area) on the table df:
\* the returned dictionary, or the exception raised.
analyze_historical_trends(df, area) ==
    IF df.isNone THEN {Raise("TypeError")}
    ELSE IF "Area" \notin df.columns THEN {Raise("KeyError")}
    ELSE LET area_data == FilterArea(df, area)
         IN  IF area_data = <<>> THEN {Return(NoHistoricalData)}
             ELSE IF {"AQI", "Rainfall", "Year"} \subseteq df.columns
             THEN LET aqi_values      == [i \in 1..Len(area_data) |-> R(area_data[i]["AQI"])]
                      rainfall_values == Column(area_data, "Rainfall")
                      years           == Column(area_data, "Year")
                      avg_aqi         == RMean(aqi_values)
                      avg_rainfall    == RMean(rainfall_values)
                  IN  {Return([aqi_trend |-> ta,
                               rainfall_trend |-> tr,
                               aqi_score |-> a,
                               rainfall_score |-> r,
                               avg_aqi |-> ma,
                               avg_rainfall |-> mr,
                               data_years |-> years]) :
                          ta \in AqiTrend(aqi_values),
                          tr \in RainfallTrend(rainfall_values),
                          a \in Round1(AqiScore(avg_aqi)),
                          r \in Round1(RainfallScore(avg_rainfall)),
                          ma \in Round1(avg_aqi),
                          mr \in Round1(avg_rainfall)}
             ELSE {Raise("KeyError")}

(***************************************************************************)
(* analyze_soil_characteristics                                            *)
(***************************************************************************)
NoSoilData ==
    [soil_type |-> "Unknown",
     elevation |-> R(0),
     lake_bed_probability |-> R(5),
     water_absorption_score |-> 5,
     waterlogging_risk |-> R(5)]

ElevationFactor(elevation) == RMax(R(0), RDiv(RSub(R(1000), elevation), R(1000)))
SoilFactor(soil_type) == IF Contains("Clayey", soil_type) THEN <<4, 5>> ELSE <<3, 10>>
LakeBedProbability(soil_type, elevation) ==
    RMin(R(10), RMax(R(1), RMul(RAdd(ElevationFactor(elevation), SoilFactor(soil_type)), R(10))))
\* a lookup whose default is 0
AbsorptionScore_ZeroDefault(map, soil_type) ==
    IF soil_type \in DOMAIN map THEN map[soil_type] ELSE 0

\* self.soil_absorption_map.get(soil_type, 5)
AbsorptionScore(map, soil_type) == IF soil_type \in DOMAIN map THEN map[soil_type] ELSE 5
WaterloggingRisk(absorption_score, elevation) ==
    Clamp(RAdd(RSub(R(11), R(absorption_score)), RMul(ElevationFactor(elevation), R(3))))

\* a selection that takes the last of the selected rows
ILoc0_Last(rows) == rows[Len(rows)]

\* soil_data.iloc[0]
ILoc0(rows) == rows[1]

\* The possible outcomes of analyze_soil_characteristics(area) on the table df
analyze_soil_characteristics(df, map, area) ==
    IF df.isNone THEN {Raise("TypeError")}
    ELSE IF "Area" \notin df.columns THEN {Raise("KeyError")}
    ELSE LET soil_data == FilterArea(df, area)
         IN  IF soil_data = <<>> THEN {Return(NoSoilData)}
             ELSE IF {"Soil Type", "Elevation"} \subseteq df.columns
             THEN LET soil_type        == ILoc0(soil_data)["Soil Type"]
                      elevation        == ILoc0(soil_data)["Elevation"]
                      absorption_score == AbsorptionScore(map, soil_type)
                  IN  {Return([soil_type |-> soil_type,
                               elevation |-> elevation,
                               lake_bed_probability |-> l,
                               water_absorption_score |-> absorption_score,
                               waterlogging_risk |-> w]) :
                          l \in Round1(LakeBedProbability(soil_type, elevation)),
                          w \in Round1(WaterloggingRisk(absorption_score, elevation))}
             ELSE {Raise("KeyError")}

(***************************************************************************)
(* calculate_risk_scores                                                   *)
(***************************************************************************)
ConstructionStability(waterlogging_risk) == Clamp(RSub(R(11), waterlogging_risk))
WaterManagement(rainfall_score, water_absorption_score) ==
    RMin(R(10), RMax(R(1), RDiv(RAdd(rainfall_score, R(water_absorption_score)), R(2))))
\* the overall score reported without the inversion 11 - overall
ClimateRiskScore_NotInverted(air_quality_score, construction_stability, water_management_score) ==
    Clamp(RDiv(RAdd(RAdd(air_quality_score, construction_stability),
                    water_management_score), R(3)))

ClimateRiskScore(air_quality_score, construction_stability, water_management_score) ==
    LET overall_score ==
            RDiv(RAdd(RAdd(air_quality_score, construction_stability),
                      water_management_score), R(3))
    IN  Clamp(RSub(R(11), overall_score))

\* The possible bundles calculate_risk_scores returns for the two dictionaries
calculate_risk_scores(historical_analysis, soil_analysis) ==
    LET air_quality_score      == historical_analysis.aqi_score
        construction_stability == ConstructionStability(soil_analysis.waterlogging_risk)
        water_management_score == WaterManagement(historical_analysis.rainfall_score,
                                                  soil_analysis.water_absorption_score)
        climate_risk_score     == ClimateRiskScore(air_quality_score, construction_stability,
                                                   water_management_score)
    IN  {[air_quality |-> a,
          construction_stability |-> c,
          water_management |-> w,
          climate_risk_score |-> k] :
            a \in Round1(air_quality_score),
            c \in Round1(construction_stability),
            w \in Round1(water_management_score),
            k \in Round1(climate_risk_score)}

(***************************************************************************)
(* get_ai_insights, generate_insights, display_insights                    *)
(***************************************************************************)
AdviceText == "Improve drainage before construction."
ErrorText == "Connection error."

\* an except clause that returns the text of the exception alone
get_ai_insights_BareError(area, analysis_data, collab) ==
    IF collab = "ok" THEN AdviceText ELSE ErrorText

\* get_ai_insights: the reply of the chat completion, or, when building the
\* prompt or the request raises, the placeholder of its except clause.
\* collab is what the OpenAI client does: "ok" or "raised".
get_ai_insights(area, analysis_data, collab) ==
    IF /\ {"risk_scores", "soil_analysis", "historical_analysis"} \subseteq DOMAIN analysis_data
       /\ {"climate_risk_score", "air_quality", "construction_stability",
           "water_management"} \subseteq DOMAIN analysis_data.risk_scores
       /\ {"soil_type", "waterlogging_risk"} \subseteq DOMAIN analysis_data.soil_analysis
       /\ {"aqi_trend", "rainfall_trend"} \subseteq DOMAIN analysis_data.historical_analysis
    THEN IF collab = "ok" THEN AdviceText
         ELSE "AI analysis unavailable: " \o ErrorText
    ELSE "AI analysis unavailable: " \o "KeyError"

\* The possible outcomes of generate_insights(area)
generate_insights(aqi, soil, map, area, collab) ==
    UNION {
      IF h.exc # "None" THEN {Raise(h.exc)}
      ELSE UNION {
        IF s.exc # "None" THEN {Raise(s.exc)}
        ELSE {LET complete_analysis ==
                      [area |-> area,
                       historical_analysis |-> h.value,
                       soil_analysis |-> s.value,
                       risk_scores |-> r]
              IN  Return([k \in DOMAIN complete_analysis \cup {"ai_insights"} |->
                            IF k = "ai_insights"
                            THEN get_ai_insights(area, complete_analysis, collab)
                            ELSE complete_analysis[k]]) :
                r \in calculate_risk_scores(h.value, s.value)}
        : s \in analyze_soil_characteristics(soil, map, area)}
      : h \in analyze_historical_trends(aqi, area)}

\* display_insights(insights): returns None, or raises KeyError at the first
\* key it reads that the dictionaries do not hold
display_insights(insights) ==
    IF /\ {"area", "historical_analysis", "soil_analysis", "risk_scores",
           "ai_insights"} \subseteq DOMAIN insights
       /\ {"climate_risk_score", "air_quality", "construction_stability",
           "water_management"} \subseteq DOMAIN insights.risk_scores
       /\ {"soil_type", "elevation", "waterlogging_risk",
           "lake_bed_probability"} \subseteq DOMAIN insights.soil_analysis
       /\ {"avg_aqi", "aqi_trend", "avg_rainfall",
           "rainfall_trend"} \subseteq DOMAIN insights.historical_analysis
    THEN Return(EmptyDict)
    ELSE Raise("KeyError")

(***************************************************************************)
(* The inputs of the model                                                 *)
(***************************************************************************)
Areas == {"Hebbal", "Anekal"}
Years == {2020, 2021}
\* (AQI, "Rainfall (mm)") cells of an observation
Readings == {<<20, "1257 mm">>, <<120, "2600 mm">>}
\* ("Soil Type", "Elevation (m)") cells of a soil record
SoilFacts == {<<"Clayey Soil", "920 meters">>, <<"Black Cotton Soil", "200 meters">>,
              <<"Peaty Soil", "-50 meters">>}

ObsRows == {ObsRow(a, y, r[1], r[2]) : a \in Areas, y \in Years, r \in Readings}
SoilRows == {SoilRow(a, f[1], f[2]) : a \in Areas, f \in SoilFacts}

File(cols, rows) == [exists |-> TRUE, columns |-> cols, rows |-> rows]
MissingFile == [exists |-> FALSE, columns |-> {}, rows |-> <<>>]

NoCall == [op |-> "none", args |-> <<>>, collab |-> "unused", exc |-> "None",
           value |-> EmptyDict]

InitEngine ==
    /\ engine = "none"
    /\ aqi_rainfall_data = NoneTable
    /\ soil_elevation_data = NoneTable
    /\ predictions_data = NoneTable
    /\ soil_absorption_map = EmptyDict
    /\ ret = NoCall

InitForecast ==
    /\ pc = "start"
    /\ data = NoneTable
    /\ models = <<>>
    /\ results_df = NoneTable

\* no thread is inside a call of the engine
Callers == {1, 2}
NotCalling == [op |-> "none", area |-> "", collab |-> "unused", pc |-> "idle",
               h |-> EmptyDict, s |-> EmptyDict, exc |-> "None", value |-> EmptyDict]
InitCallers == callers = [c \in Callers |-> NotCalling]

\* the dashboard before the first run of its script: an empty session
NoRun == [clicked |-> "none", exc |-> "None", widgets |-> {}]
InitDashboard ==
    /\ session_state = EmptyDict
    /\ run = NoRun

\* an observation table of the data model: one observation per area and year
OnePerYear(o) ==
    \A i \in 1..Len(o), j \in 1..Len(o) :
        (i # j /\ o[i]["Area"] = o[j]["Area"]) => o[i]["Year"] # o[j]["Year"]

\* the three files exist and hold well-formed cells
Init ==
    /\ \E o \in {t \in BoundedSeq(ObsRows, MaxObs) : OnePerYear(t)},
          s \in BoundedSeq(SoilRows, MaxSoil) :
          files = [aqi |-> File(AQIColumns, o),
                   soil |-> File(SoilColumns, s),
                   predictions |-> File(PredictionColumns, <<>>)]
    /\ InitEngine
    /\ InitForecast
    /\ InitCallers
    /\ InitDashboard

(***************************************************************************)
(* The calls on a constructed engine.  A caller makes one call at a time:  *)
(* ret holds the call that last returned until the caller moves on.        *)
(***************************************************************************)
Idle == engine = "constructed" /\ ret.op \in {"none", "__init__"}

AnalyzeHistoricalTrends ==
    /\ Idle
    /\ \E area \in Areas :
         \E o \in analyze_historical_trends(aqi_rainfall_data, area) :
            ret' = [op |-> "analyze_historical_trends", args |-> <<area>>,
                    collab |-> "unused", exc |-> o.exc, value |-> o.value]
    /\ UNCHANGED <<files, engine, aqi_rainfall_data, soil_elevation_data,
                   predictions_data, soil_absorption_map, forecastVars, callerVars, dashboardVars>>

AnalyzeSoilCharacteristics ==
    /\ Idle
    /\ \E area \in Areas :
         \E o \in analyze_soil_characteristics(soil_elevation_data, soil_absorption_map, area) :
            ret' = [op |-> "analyze_soil_characteristics", args |-> <<area>>,
                    collab |-> "unused", exc |-> o.exc, value |-> o.value]
    /\ UNCHANGED <<files, engine, aqi_rainfall_data, soil_elevation_data,
                   predictions_data, soil_absorption_map, forecastVars, callerVars, dashboardVars>>

\* calculate_risk_scores on a trend summary and a soil profile the analyzers
\* returned (for any two areas)
CalculateRiskScores ==
    /\ Idle
    /\ \E a1 \in Areas, a2 \in Areas :
         \E h \in analyze_historical_trends(aqi_rainfall_data, a1),
            s \in analyze_soil_characteristics(soil_elevation_data, soil_absorption_map, a2) :
            /\ h.exc = "None"
            /\ s.exc = "None"
            /\ \E r \in calculate_risk_scores(h.value, s.value) :
                  ret' = [op |-> "calculate_risk_scores", args |-> <<h.value, s.value>>,
                          collab |-> "unused", exc |-> "None", value |-> r]
    /\ UNCHANGED <<files, engine, aqi_rainfall_data, soil_elevation_data,
                   predictions_data, soil_absorption_map, forecastVars, callerVars, dashboardVars>>

GenerateInsights ==
    /\ Idle
    /\ \E area \in Areas, collab \in {"ok", "raised"} :
         \E o \in generate_insights(aqi_rainfall_data, soil_elevation_data,
                                    soil_absorption_map, area, collab) :
            ret' = [op |-> "generate_insights", args |-> <<area>>,
                    collab |-> collab, exc |-> o.exc, value |-> o.value]
    /\ UNCHANGED <<files, engine, aqi_rainfall_data, soil_elevation_data,
                   predictions_data, soil_absorption_map, forecastVars, callerVars, dashboardVars>>

\* engine.display_insights(insights) on the dictionary generate_insights returned
DisplayInsights ==
    /\ engine = "constructed"
    /\ ret.op = "generate_insights"
    /\ ret.exc = "None"
    /\ LET o == display_insights(ret.value)
       IN  ret' = [op |-> "display_insights", args |-> <<ret.value>>,
                   collab |-> ret.collab, exc |-> o.exc, value |-> o.value]
    /\ UNCHANGED <<files, engine, aqi_rainfall_data, soil_elevation_data,
                   predictions_data, soil_absorption_map, forecastVars, callerVars, dashboardVars>>

\* the caller drops the value it holds and goes on to its next call (the next
\* round of the interactive loop)
Continue ==
    /\ engine = "constructed"
    /\ ret.op \notin {"none", "__init__"}
    /\ ret' = NoCall
    /\ UNCHANGED <<files, engine, aqi_rainfall_data, soil_elevation_data,
                   predictions_data, soil_absorption_map, forecastVars, callerVars, dashboardVars>>

Next ==
    \/ Construct
    \/ AnalyzeHistoricalTrends
    \/ AnalyzeSoilCharacteristics
    \/ CalculateRiskScores
    \/ GenerateInsights
    \/ DisplayInsights
    \/ Continue

Spec == Init /\ [][Next]_vars

(***************************************************************************)
(* The forecast job, src/src/ml-engine.py                                  *)
(***************************************************************************)
\* the distinct areas collected by prepending: the area met last comes first
RECURSIVE Unique_Prepend(_)
Unique_Prepend(s) ==
    IF s = <<>> THEN <<>>
    ELSE LET u == Unique_Prepend(SubSeq(s, 1, Len(s) - 1))
         IN  IF \E i \in 1..Len(u) : u[i] = s[Len(s)] THEN u ELSE <<s[Len(s)]>> \o u

\* data['Area'].unique(): the areas in the order of their first occurrence
RECURSIVE Unique(_)
Unique(s) ==
    IF s = <<>> THEN <<>>
    ELSE LET u == Unique(SubSeq(s, 1, Len(s) - 1))
         IN  IF \E i \in 1..Len(u) : u[i] = s[Len(s)] THEN u ELSE Append(u, s[Len(s)])

\* the fit against the positions 0, 1, 2, ... instead of the values of x
Fit_OnIndex(x, y) ==
    LET n    == Len(x)
        sx   == SumSeq([i \in 1..n |-> i - 1])
        sxx  == SumSeq([i \in 1..n |-> (i - 1) * (i - 1)])
        sy   == RSum(y)
        sxy  == RSum([i \in 1..n |-> RMul(R(i - 1), y[i])])
        den  == n * sxx - sx * sx
        coef == IF den = 0 THEN R(0)
                ELSE RDiv(RSub(RMul(R(n), sxy), RMul(R(sx), sy)), R(den))
    IN  [coef |-> coef,
         intercept |-> RSub(RDiv(sy, R(n)), RMul(coef, Norm(sx, n)))]

\* LinearRegression().fit(X, y) for one feature: ordinary least squares on the
\* centred data.  When every x is the same the centred feature is zero and
\* the least-norm solution has coefficient 0, the intercept is the mean of y.
Fit(x, y) ==
    LET n    == Len(x)
        sx   == SumSeq(x)
        sxx  == SumSeq([i \in 1..n |-> x[i] * x[i]])
        sy   == RSum(y)
        sxy  == RSum([i \in 1..n |-> RMul(R(x[i]), y[i])])
        den  == n * sxx - sx * sx
        coef == IF den = 0 THEN R(0)
                ELSE RDiv(RSub(RMul(R(n), sxy), RMul(R(sx), sy)), R(den))
    IN  [coef |-> coef,
         intercept |-> RSub(RDiv(sy, R(n)), RMul(coef, Norm(sx, n)))]

\* model.predict([[year]])
Predict(model, year) == RAdd(model.intercept, RMul(model.coef, R(year)))

\* load_and_clean_data(): the table with the column Rainfall_numeric, or the
\* exception of read_csv or of astype(float)
load_and_clean_data(f) ==
    LET d == read_csv(f.aqi)
        c == CleanColumn(d.value, "Rainfall (mm)", " mm")
    IN  IF d.exc # "None" THEN Raise(d.exc)
        ELSE IF "Rainfall (mm)" \notin d.value.columns THEN Raise("KeyError")
        ELSE IF c.exc # "None" THEN Raise(c.exc)
        ELSE Return(WithColumn(d.value, "Rainfall_numeric", c.value))

\* training without the minimum of two observations
RECURSIVE TrainAreas_NoMinimum(_, _)
TrainAreas_NoMinimum(d, unique_areas) ==
    IF unique_areas = <<>> THEN <<>>
    ELSE LET area      == unique_areas[1]
             area_data == FilterArea(d, area)
             X         == Column(area_data, "Year")
             y_aqi     == [i \in 1..Len(area_data) |-> R(area_data[i]["AQI"])]
             y_rain    == Column(area_data, "Rainfall_numeric")
         IN  <<[area |-> area,
                aqi_model |-> Fit(X, y_aqi),
                rainfall_model |-> Fit(X, y_rain)]>>
                \o TrainAreas_NoMinimum(d, Tail(unique_areas))

\* train_models_per_area(data): the items of the dict models
RECURSIVE TrainAreas(_, _)
TrainAreas(d, unique_areas) ==
    IF unique_areas = <<>> THEN <<>>
    ELSE LET area      == unique_areas[1]
             area_data == FilterArea(d, area)
             X         == Column(area_data, "Year")
             y_aqi     == [i \in 1..Len(area_data) |-> R(area_data[i]["AQI"])]
             y_rain    == Column(area_data, "Rainfall_numeric")
             rest      == TrainAreas(d, Tail(unique_areas))
         IN  IF Len(area_data) > 1
             THEN <<[area |-> area,
                     aqi_model |-> Fit(X, y_aqi),
                     rainfall_model |-> Fit(X, y_rain)]>> \o rest
             ELSE rest

train_models_per_area(d) == TrainAreas(d, Unique(Column(d.rows, "Area")))

ResultRow(y, a, q, r) == ("Year" :> y @@ "Area" :> a @@ "AQI" :> q @@ "Rainfall_mm" :> r)

FirstYear == 2025
LastYear == 2030
\* range(2025, 2031)
FutureYears == [i \in 1..(LastYear - FirstYear + 1) |-> FirstYear + i - 1]

\* all the sequences whose i-th element is drawn from the set s[i]
RECURSIVE SeqProduct(_)
SeqProduct(s) ==
    IF s = <<>> THEN {<<>>}
    ELSE {<<h>> \o t : h \in s[1], t \in SeqProduct(Tail(s))}

RECURSIVE Flatten(_)
Flatten(s) == IF s = <<>> THEN <<>> ELSE s[1] \o Flatten(Tail(s))

\* the six rows of one area, each prediction rounded to one decimal place
AreaPredictions(m) ==
    SeqProduct([i \in 1..Len(FutureYears) |->
                  {ResultRow(FutureYears[i], m.area, q, r) :
                      q \in Round1(Predict(m.aqi_model, FutureYears[i])),
                      r \in Round1(Predict(m.rainfall_model, FutureYears[i]))}])

\* generate_predictions(models, data): the possible tables
generate_predictions(ms, d) ==
    LET historical == [i \in 1..Len(d.rows) |->
                         ResultRow(d.rows[i]["Year"], d.rows[i]["Area"], d.rows[i]["AQI"],
                                   d.rows[i]["Rainfall_numeric"])]
    IN  {DataFrame(PredictionColumns, historical \o Flatten(p)) :
            p \in SeqProduct([i \in 1..Len(ms) |-> AreaPredictions(ms[i])])}

LoadAndCleanData ==
    /\ pc = "start"
    /\ LET o == load_and_clean_data(files)
       IN  IF o.exc = "None"
           THEN pc' = "loaded" /\ data' = o.value
           ELSE pc' = "failed" /\ data' = data
    /\ UNCHANGED <<files, engineVars, models, results_df, callerVars, dashboardVars>>

TrainModelsPerArea ==
    /\ pc = "loaded"
    /\ models' = train_models_per_area(data)
    /\ pc' = "trained"
    /\ UNCHANGED <<engineVars, data, results_df, callerVars, dashboardVars>>

GeneratePredictions ==
    /\ pc = "trained"
    /\ results_df' \in generate_predictions(models, data)
    /\ pc' = "predicted"
    /\ UNCHANGED <<engineVars, data, models, callerVars, dashboardVars>>

\* save_results(results_df): to_csv writes the predictions file
SaveResults ==
    /\ pc = "predicted"
    /\ files' = [files EXCEPT !.predictions = File(results_df.columns, results_df.rows)]
    /\ pc' = "done"
    /\ UNCHANGED <<engine, aqi_rainfall_data, soil_elevation_data, predictions_data,
                   soil_absorption_map, ret, data, models, results_df,
                   callerVars, dashboardVars>>

ForecastYears == {2024, 2025}
ForecastRows == {ObsRow(a, y, r[1], r[2]) : a \in Areas, y \in ForecastYears, r \in Readings}

\* main() on entry, before the engine exists; the predictions file is not written yet
InitJob ==
    /\ \E o \in BoundedSeq(ForecastRows, MaxData) :
          files = [aqi |-> File(AQIColumns, o),
                   soil |-> File(SoilColumns, <<>>),
                   predictions |-> MissingFile]
    /\ InitEngine
    /\ InitForecast
    /\ InitCallers
    /\ InitDashboard

NextForecast ==
    \/ LoadAndCleanData
    \/ TrainModelsPerArea
    \/ GeneratePredictions
    \/ SaveResults

SpecForecast == InitJob /\ [][NextForecast]_vars

(***************************************************************************)
(* Loading from files that may be missing or hold malformed cells          *)
(***************************************************************************)
LoadReadings == {<<20, "1257 mm">>, <<20, "1257mm">>}
LoadSoilFacts == {<<"Clayey Soil", "920 meters">>, <<"Clayey Soil", "920 m">>}
LoadObsRows == {ObsRow(a, 2020, r[1], r[2]) : a \in Areas, r \in LoadReadings}
LoadSoilRows == {SoilRow(a, f[1], f[2]) : a \in Areas, f \in LoadSoilFacts}

InitLoad ==
    /\ \E a \in {MissingFile} \cup {File(AQIColumns, o) : o \in BoundedSeq(LoadObsRows, MaxObs)},
          s \in {MissingFile} \cup {File(SoilColumns, o) : o \in BoundedSeq(LoadSoilRows, MaxSoil)},
          p \in {MissingFile, File(PredictionColumns, <<>>)} :
          files = [aqi |-> a, soil |-> s, predictions |-> p]
    /\ InitEngine
    /\ InitForecast
    /\ InitCallers
    /\ InitDashboard

SpecLoad == InitLoad /\ [][Next]_vars

(***************************************************************************)
(* The engine on soil tables of every soil type, with several records of   *)
(* one area                                                                *)
(***************************************************************************)
RecordFacts == {<<"Clayey Soil", "920 meters">>, <<"Red Loamy Soil", "900 meters">>,
                <<"Laterite Soil", "750 meters">>, <<"Sandy Soil", "10 meters">>,
                <<"Black Cotton Soil", "200 meters">>, <<"Alluvial Soil", "1200 meters">>,
                <<"Peaty Soil", "-50 meters">>, <<"Silty Clayey Loam", "400 meters">>}
RecordRows == {SoilRow(a, f[1], f[2]) : a \in Areas, f \in RecordFacts}

InitRecords ==
    /\ \E s \in BoundedSeq(RecordRows, MaxRecords) :
          files = [aqi |-> File(AQIColumns, <<ObsRow("Hebbal", 2020, 20, "1257 mm")>>),
                   soil |-> File(SoilColumns, s),
                   predictions |-> File(PredictionColumns, <<>>)]
    /\ InitEngine
    /\ InitForecast
    /\ InitCallers
    /\ InitDashboard

SpecRecords == InitRecords /\ [][Next]_vars

(***************************************************************************)
(* The engine on series of observations whose slopes lie on, just above    *)
(* and just below the thresholds of the trend labels, in any order of the  *)
(* years                                                                   *)
(***************************************************************************)
SeriesReadings == {<<20, "1250 mm">>, <<22, "1260 mm">>, <<23, "1261 mm">>}
SeriesRows == {ObsRow("Hebbal", y, r[1], r[2]) : y \in Years, r \in SeriesReadings}
                 \cup {ObsRow("Anekal", 2020, 20, "1250 mm")}

InitSeries ==
    /\ \E o \in BoundedSeq(SeriesRows, MaxSeries) :
          files = [aqi |-> File(AQIColumns, o),
                   soil |-> File(SoilColumns, <<SoilRow("Hebbal", "Clayey Soil", "920 meters")>>),
                   predictions |-> File(PredictionColumns, <<>>)]
    /\ InitEngine
    /\ InitForecast
    /\ InitCallers
    /\ InitDashboard

SpecSeries == InitSeries /\ [][Next]_vars

(***************************************************************************)
(* Threads calling one engine.  A call of analyze_historical_trends reads  *)
(* self.aqi_rainfall_data once (line 78), a call of                        *)
(* analyze_soil_characteristics reads self.soil_elevation_data and         *)
(* self.soil_absorption_map (lines 145, 167); generate_insights makes the  *)
(* two calls one after the other (lines 261, 264) and then combines what   *)
(* they returned.  Between two reads any other thread may run.             *)
(***************************************************************************)
\* a thread enters one of the four methods; calculate_risk_scores is handed
\* two dictionaries the analyzers return for the area
Invoke(c) ==
    /\ engine = "constructed"
    /\ callers[c].pc = "idle"
    /\ \E area \in Areas :
          \/ \E op \in {"analyze_historical_trends", "analyze_soil_characteristics"} :
                callers' = [callers EXCEPT ![c] =
                              [NotCalling EXCEPT !.op = op, !.area = area, !.pc = "called"]]
          \/ \E collab \in {"ok", "raised"} :
                callers' = [callers EXCEPT ![c] =
                              [NotCalling EXCEPT !.op = "generate_insights", !.area = area,
                                                 !.collab = collab, !.pc = "called"]]
          \/ \E h \in analyze_historical_trends(aqi_rainfall_data, area),
                s \in analyze_soil_characteristics(soil_elevation_data,
                                                   soil_absorption_map, area) :
                /\ h.exc = "None"
                /\ s.exc = "None"
                /\ callers' = [callers EXCEPT ![c] =
                                 [NotCalling EXCEPT !.op = "calculate_risk_scores",
                                                    !.area = area, !.pc = "called",
                                                    !.h = h.value, !.s = s.value]]
    /\ UNCHANGED <<engineVars, forecastVars, dashboardVars>>

\* an analyzer that keeps the rows it selected: self.aqi_rainfall_data = area_data
ReadHistorical_KeepsSelection(c) ==
    /\ callers[c].pc = "called"
    /\ callers[c].op \in {"analyze_historical_trends", "generate_insights"}
    /\ \E o \in analyze_historical_trends(aqi_rainfall_data, callers[c].area) :
          callers' = [callers EXCEPT ![c] =
                        IF o.exc # "None" \/ @.op = "analyze_historical_trends"
                        THEN [@ EXCEPT !.pc = "returned", !.exc = o.exc, !.value = o.value]
                        ELSE [@ EXCEPT !.pc = "soil", !.h = o.value]]
    /\ aqi_rainfall_data' =
          IF aqi_rainfall_data.isNone \/ "Area" \notin aqi_rainfall_data.columns
          THEN aqi_rainfall_data
          ELSE [aqi_rainfall_data EXCEPT !.rows = FilterArea(aqi_rainfall_data, callers[c].area)]
    /\ UNCHANGED <<files, engine, soil_elevation_data, predictions_data,
                   soil_absorption_map, ret, forecastVars, dashboardVars>>

\* the body of analyze_historical_trends: it returns to its caller, which is
\* the thread itself or generate_insights (line 261)
ReadHistorical(c) ==
    /\ callers[c].pc = "called"
    /\ callers[c].op \in {"analyze_historical_trends", "generate_insights"}
    /\ \E o \in analyze_historical_trends(aqi_rainfall_data, callers[c].area) :
          callers' = [callers EXCEPT ![c] =
                        IF o.exc # "None" \/ @.op = "analyze_historical_trends"
                        THEN [@ EXCEPT !.pc = "returned", !.exc = o.exc, !.value = o.value]
                        ELSE [@ EXCEPT !.pc = "soil", !.h = o.value]]
    /\ UNCHANGED <<engineVars, forecastVars, dashboardVars>>

\* the body of analyze_soil_characteristics, called by the thread or by
\* generate_insights (line 264)
ReadSoil(c) ==
    /\ \/ callers[c].pc = "called" /\ callers[c].op = "analyze_soil_characteristics"
       \/ callers[c].pc = "soil" /\ callers[c].op = "generate_insights"
    /\ \E o \in analyze_soil_characteristics(soil_elevation_data, soil_absorption_map,
                                             callers[c].area) :
          callers' = [callers EXCEPT ![c] =
                        IF o.exc # "None" \/ @.op = "analyze_soil_characteristics"
                        THEN [@ EXCEPT !.pc = "returned", !.exc = o.exc, !.value = o.value]
                        ELSE [@ EXCEPT !.pc = "synth", !.s = o.value]]
    /\ UNCHANGED <<engineVars, forecastVars, dashboardVars>>

\* calculate_risk_scores on the two dictionaries, and for generate_insights the
\* rest of its body (lines 267-286)
Synthesize(c) ==
    /\ \/ callers[c].pc = "called" /\ callers[c].op = "calculate_risk_scores"
       \/ callers[c].pc = "synth" /\ callers[c].op = "generate_insights"
    /\ \E r \in calculate_risk_scores(callers[c].h, callers[c].s) :
          LET complete_analysis ==
                  [area |-> callers[c].area,
                   historical_analysis |-> callers[c].h,
                   soil_analysis |-> callers[c].s,
                   risk_scores |-> r]
              insights ==
                  [k \in DOMAIN complete_analysis \cup {"ai_insights"} |->
                     IF k = "ai_insights"
                     THEN get_ai_insights(callers[c].area, complete_analysis, callers[c].collab)
                     ELSE complete_analysis[k]]
          IN  callers' = [callers EXCEPT ![c] =
                            [@ EXCEPT !.pc = "returned",
                                      !.value = IF callers[c].op = "generate_insights"
                                                THEN insights ELSE r]]
    /\ UNCHANGED <<engineVars, forecastVars, dashboardVars>>

\* the thread takes the value and is free for its next call
Resume(c) ==
    /\ callers[c].pc = "returned"
    /\ callers' = [callers EXCEPT ![c] = NotCalling]
    /\ UNCHANGED <<engineVars, forecastVars, dashboardVars>>

CallObsRows == {ObsRow(a, 2020, 20, "1257 mm") : a \in Areas}
CallSoilRows == {SoilRow(a, "Clayey Soil", "920 meters") : a \in Areas}

InitThreads ==
    /\ \E o \in {t \in BoundedSeq(CallObsRows, MaxObs) : OnePerYear(t)},
          s \in BoundedSeq(CallSoilRows, MaxSoil) :
          files = [aqi |-> File(AQIColumns, o),
                   soil |-> File(SoilColumns, s),
                   predictions |-> File(PredictionColumns, <<>>)]
    /\ InitEngine
    /\ InitForecast
    /\ InitCallers
    /\ InitDashboard

NextThreads ==
    \/ Construct
    \/ \E c \in Callers :
          \/ Invoke(c)
          \/ ReadHistorical(c)
          \/ ReadSoil(c)
          \/ Synthesize(c)
          \/ Resume(c)

SpecThreads == InitThreads /\ [][NextThreads]_vars

(***************************************************************************)
(* The dashboard, src/streamlit_app.py.  Streamlit runs main() from the    *)
(* top when the page is opened and again on every interaction; in a run    *)
(* started by the click of a button, st.button returns True for that       *)
(* button and False for every other one.  Only st.session_state survives   *)
(* from one run to the next.                                               *)
(***************************************************************************)
ResultButtons == {"export", "share", "another"}
Clicks == {"none", "analyze"} \cup ResultButtons

FallbackAreas == {"Koramangala", "Hebbal", "Malleswaram", "Anekal", "Hunasamaranahalli"}
\* load_available_areas(): the areas of the observation file, or the fixed
\* list when reading it fails
load_available_areas(f) ==
    IF f.aqi.exists /\ "Area" \in f.aqi.columns
    THEN {f.aqi.rows[i]["Area"] : i \in 1..Len(f.aqi.rows)}
    ELSE FallbackAreas

\* what st.selectbox can return: one of the options, or None (here "") when
\* there is no option
Selectable(f) == IF load_available_areas(f) = {} THEN {""} ELSE load_available_areas(f)

\* the keys that lines 196-236 read from the stored dictionary are all there
Renderable(insights) ==
    /\ {"risk_scores", "historical_analysis", "soil_analysis"} \subseteq DOMAIN insights
    /\ {"climate_risk_score", "air_quality", "construction_stability",
        "water_management"} \subseteq DOMAIN insights.risk_scores
    /\ {"avg_aqi", "aqi_trend", "avg_rainfall", "rainfall_trend",
        "data_years"} \subseteq DOMAIN insights.historical_analysis
    /\ {"soil_type", "waterlogging_risk", "water_absorption_score", "elevation",
        "lake_bed_probability"} \subseteq DOMAIN insights.soil_analysis

Ended(clicked, exc, widgets) == [clicked |-> clicked, exc |-> exc, widgets |-> widgets]

\* One run of main().  clicked is the button whose click started the run
\* ("none": the page was opened, or another area was picked in the select
\* box); a button can be clicked only if the last run put it on the page.
\* secret: st.secrets holds OPEN_API_KEY.  The local variable insights is
\* bound only by line 181, that is when the Analyze button was pressed in
\* this very run.
RunMain(clicked) ==
    /\ clicked # "none" => clicked \in run.widgets
    /\ \E secret \in BOOLEAN, collab \in {"ok", "raised"}, selected_area \in Selectable(files) :
          IF engine = "none" /\ ~secret
          THEN \* lines 161-163: st.error, st.stop
               /\ run' = Ended(clicked, "None", {})
               /\ UNCHANGED <<engine, aqi_rainfall_data, soil_elevation_data,
                              predictions_data, soil_absorption_map, session_state>>
          ELSE LET l       == load_data(files)
                   aqi     == IF engine = "none" THEN l.aqi ELSE aqi_rainfall_data
                   soil    == IF engine = "none" THEN l.soil ELSE soil_elevation_data
                   map     == IF engine = "none" THEN SoilAbsorptionMap ELSE soil_absorption_map
                   analyze_button == clicked = "analyze"
                   pressed == analyze_button /\ selected_area # ""
               IN  /\ engine' = "constructed"
                   /\ aqi_rainfall_data' = aqi
                   /\ soil_elevation_data' = soil
                   /\ predictions_data' = IF engine = "none" THEN l.pred ELSE predictions_data
                   /\ soil_absorption_map' = map
                   /\ \E o \in IF pressed
                              THEN generate_insights(aqi, soil, map, selected_area, collab)
                              ELSE {Return(EmptyDict)} :
                         LET stored == IF pressed /\ o.exc = "None"
                                       THEN ("insights" :> o.value)
                                       ELSE session_state
                         IN  IF pressed /\ o.exc # "None"
                             THEN \* line 181 raised
                                  /\ session_state' = session_state
                                  /\ run' = Ended(clicked, o.exc, {"analyze"})
                             ELSE IF "insights" \notin DOMAIN stored
                             THEN \* line 187: nothing to display
                                  /\ session_state' = stored
                                  /\ run' = Ended(clicked, "None", {"analyze"})
                             ELSE IF ~pressed
                             THEN \* line 192 reads the local insights, which is unbound
                                  /\ session_state' = stored
                                  /\ run' = Ended(clicked, "UnboundLocalError", {"analyze"})
                             ELSE IF ~Renderable(stored["insights"])
                             THEN \* lines 196-236
                                  /\ session_state' = stored
                                  /\ run' = Ended(clicked, "KeyError", {"analyze"})
                             ELSE IF clicked = "another"
                             THEN \* lines 282-285: del, st.experimental_rerun()
                                  /\ session_state' = EmptyDict
                                  /\ run' = Ended(clicked, "None", {})
                             ELSE /\ session_state' = stored
                                  /\ run' = Ended(clicked, "None", {"analyze"} \cup ResultButtons)
    /\ UNCHANGED <<files, ret, forecastVars, callerVars>>

InitPage ==
    /\ \E a \in {MissingFile} \cup
                  {File(AQIColumns, o) :
                      o \in {t \in BoundedSeq(CallObsRows, MaxObs) : OnePerYear(t)}},
          s \in BoundedSeq(CallSoilRows, MaxSoil) :
          files = [aqi |-> a,
                   soil |-> File(SoilColumns, s),
                   predictions |-> File(PredictionColumns, <<>>)]
    /\ InitEngine
    /\ InitForecast
    /\ InitCallers
    /\ InitDashboard

NextDashboard == \E clicked \in Clicks : RunMain(clicked)

SpecDashboard == InitPage /\ [][NextDashboard]_vars

(***************************************************************************)
(* Properties of the insight engine                                        *)
(***************************************************************************)
InRange(x) == ~RLt(x, R(1)) /\ ~RLt(R(10), x)
Returned(op) == ret.op = op /\ ret.exc = "None"

\* C1: every score returned by analyze_historical_trends (aqi_score,
\* rainfall_score), analyze_soil_characteristics (lake_bed_probability,
\* waterlogging_risk) and calculate_risk_scores (air_quality,
\* construction_stability, water_management, climate_risk_score) lies in
\* [1, 10], whatever the tables hold and whether or not the area is in them.
C1_ScoresInRange ==
    /\ Returned("analyze_historical_trends") =>
          InRange(ret.value.aqi_score) /\ InRange(ret.value.rainfall_score)
    /\ Returned("analyze_soil_characteristics") =>
          InRange(ret.value.lake_bed_probability) /\ InRange(ret.value.waterlogging_risk)
    /\ Returned("calculate_risk_scores") =>
          /\ InRange(ret.value.air_quality)
          /\ InRange(ret.value.construction_stability)
          /\ InRange(ret.value.water_management)
          /\ InRange(ret.value.climate_risk_score)
    /\ Returned("generate_insights") =>
          \A k \in DOMAIN ret.value.risk_scores : InRange(ret.value.risk_scores[k])

\* a bundle whose scores were cut at both ends: an area whose raw AQI and
\* rainfall scores are below 1, on soil whose raw waterlogging risk is above 10
C1_Witness ==
    /\ Returned("calculate_risk_scores")
    /\ "avg_aqi" \in DOMAIN ret.args[1]
    /\ RLt(R(50), ret.args[1].avg_aqi)
    /\ ret.args[2].soil_type = "Black Cotton Soil"
    /\ ret.value.air_quality = R(1)
    /\ ret.value.climate_risk_score = R(10)

Mean3(a, b, c) == RDiv(RAdd(RAdd(a, b), c), R(3))

\* C2 as stated: the returned climate_risk_score equals
\* clamp(11 - mean(air_quality, construction_stability, water_management), 1, 10)
\* of the three sub-scores of the same returned bundle.
C2_ExactOnReturnedBundle ==
    Returned("calculate_risk_scores") =>
        ret.value.climate_risk_score =
            RMax(R(1), RMin(R(10), RSub(R(11),
                Mean3(ret.value.air_quality, ret.value.construction_stability,
                      ret.value.water_management))))

\* C2 as amended: the returned climate_risk_score is
\* clamp(11 - mean(a, c, w), 1, 10) rounded to one decimal place, where
\* a = aqi_score, c = clamp(11 - waterlogging_risk, 1, 10) and
\* w = clamp((rainfall_score + water_absorption_score) / 2, 1, 10) are the
\* three sub-scores before they are rounded for the bundle.
C2_RoundedFromUnroundedSubScores ==
    Returned("calculate_risk_scores") =>
        LET h == ret.args[1]
            s == ret.args[2]
            a == h.aqi_score
            c == RMax(R(1), RMin(R(10), RSub(R(11), s.waterlogging_risk)))
            w == RMax(R(1), RMin(R(10),
                    RDiv(RAdd(h.rainfall_score, R(s.water_absorption_score)), R(2))))
        IN  ret.value.climate_risk_score \in
                Round1(RMax(R(1), RMin(R(10), RSub(R(11), Mean3(a, c, w)))))

\* a bundle for an area with observations and a soil record whose risk score
\* is strictly inside the scale
C2_Witness ==
    /\ Returned("calculate_risk_scores")
    /\ "avg_aqi" \in DOMAIN ret.args[1]
    /\ ret.args[2].soil_type # "Unknown"
    /\ RLt(R(1), ret.value.climate_risk_score)
    /\ RLt(ret.value.climate_risk_score, R(10))

\* The bundles obtained by evaluating the formulas of the two analyzers and of
\* the synthesizer on the tables without rounding anything but the final four
\* values.
FullPrecisionBundles(aqi, soil, map, area) ==
    LET area_data == FilterArea(aqi, area)
        soil_data == FilterArea(soil, area)
        aqi_score == IF area_data = <<>> THEN R(5)
                     ELSE AqiScore(RMean([i \in 1..Len(area_data) |-> R(area_data[i]["AQI"])]))
        rainfall_score == IF area_data = <<>> THEN R(5)
                          ELSE RainfallScore(RMean(Column(area_data, "Rainfall")))
        absorption == IF soil_data = <<>> THEN 5
                      ELSE AbsorptionScore(map, soil_data[1]["Soil Type"])
        waterlogging == IF soil_data = <<>> THEN R(5)
                        ELSE WaterloggingRisk(absorption, soil_data[1]["Elevation"])
        c == ConstructionStability(waterlogging)
        w == WaterManagement(rainfall_score, absorption)
    IN  {[air_quality |-> ra, construction_stability |-> rc,
          water_management |-> rw, climate_risk_score |-> rk] :
            ra \in Round1(aqi_score), rc \in Round1(c), rw \in Round1(w),
            rk \in Round1(ClimateRiskScore(aqi_score, c, w))}

\* C3: the bundle generate_insights returns for an area is the one obtained
\* without any intermediate rounding, only the four reported values rounded.
C3_NoIntermediateRounding ==
    Returned("generate_insights") =>
        ret.value.risk_scores \in
            FullPrecisionBundles(aqi_rainfall_data, soil_elevation_data,
                                 soil_absorption_map, ret.args[1])

HistoricalFields == {"aqi_trend", "rainfall_trend", "aqi_score", "rainfall_score",
                     "avg_aqi", "avg_rainfall", "data_years"}
SoilFields == {"soil_type", "elevation", "lake_bed_probability",
               "water_absorption_score", "waterlogging_risk"}

\* C4: a query for an area missing from a table returns a structure holding
\* every field the result for a present area holds, and generate_insights
\* followed by display_insights completes without error.
C4_MissingAreaFullyPopulated ==
    /\ Returned("analyze_historical_trends") => DOMAIN ret.value = HistoricalFields
    /\ Returned("analyze_soil_characteristics") => DOMAIN ret.value = SoilFields
    /\ ret.op = "display_insights" => ret.exc = "None"

NoObservations(area) == FilterArea(aqi_rainfall_data, area) = <<>>

C6_LoadFailureSurfaced ==
    /\ (ret.op = "__init__" /\ ret.exc = "None") => ret.value.caught = "None"
    /\ ret.op \in {"analyze_historical_trends", "analyze_soil_characteristics",
                   "generate_insights"} => ret.exc = "None"

Placeholder == "AI analysis unavailable"

\* C7: when get_ai_insights fails, generate_insights returns normally, its
\* ai_insights is the placeholder marking the analysis unavailable, and its
\* historical_analysis, soil_analysis and risk_scores are those of a run in
\* which the collaborator succeeds.
C7_CollaboratorFailureTolerated ==
    (ret.op = "generate_insights" /\ ret.collab = "raised") =>
        /\ ret.exc = "None"
        /\ Len(ret.value.ai_insights) >= Len(Placeholder)
        /\ SubSeq(ret.value.ai_insights, 1, Len(Placeholder)) = Placeholder
        /\ \E o \in generate_insights(aqi_rainfall_data, soil_elevation_data,
                                      soil_absorption_map, ret.args[1], "ok") :
              /\ o.exc = "None"
              /\ o.value.ai_insights = AdviceText
              /\ o.value.historical_analysis = ret.value.historical_analysis
              /\ o.value.soil_analysis = ret.value.soil_analysis
              /\ o.value.risk_scores = ret.value.risk_scores

\* the collaborator failed on an area that has observations and a soil record
C7_Witness ==
    /\ ret.op = "generate_insights"
    /\ ret.collab = "raised"
    /\ ret.exc = "None"
    /\ "avg_aqi" \in DOMAIN ret.value.historical_analysis
    /\ ret.value.soil_analysis.soil_type # "Unknown"

\* what load_data leaves in the engine for the files on disk
Fresh == load_data(files)

\* the call returned what the same call returns when it runs alone on the
\* freshly loaded tables
SameAsAlone(k) ==
    CASE k.op = "analyze_historical_trends" ->
            [exc |-> k.exc, value |-> k.value]
                \in analyze_historical_trends(Fresh.aqi, k.area)
      [] k.op = "analyze_soil_characteristics" ->
            [exc |-> k.exc, value |-> k.value]
                \in analyze_soil_characteristics(Fresh.soil, SoilAbsorptionMap, k.area)
      [] k.op = "calculate_risk_scores" ->
            \E h \in analyze_historical_trends(Fresh.aqi, k.area),
               s \in analyze_soil_characteristics(Fresh.soil, SoilAbsorptionMap, k.area) :
               /\ h.exc = "None" /\ s.exc = "None"
               /\ k.exc = "None"
               /\ k.value \in calculate_risk_scores(h.value, s.value)
      [] k.op = "generate_insights" ->
            [exc |-> k.exc, value |-> k.value]
                \in generate_insights(Fresh.aqi, Fresh.soil, SoilAbsorptionMap,
                                      k.area, k.collab)

\* C11: once the engine is constructed, the observation table, the soil table
\* and the soil absorption map stay what load_data and __init__ made of the
\* files, whatever calls of the four methods the threads have made or are
\* making; and every call that has returned, in any interleaving with the
\* calls of the other thread, returned a trend summary, soil profile, risk
\* bundle or insights that the same call returns when run alone on the
\* freshly loaded tables.
C11_CallsOnlyRead ==
    engine = "constructed" =>
        /\ aqi_rainfall_data = Fresh.aqi
        /\ soil_elevation_data = Fresh.soil
        /\ soil_absorption_map = SoilAbsorptionMap
        /\ \A c \in Callers : callers[c].pc = "returned" => SameAsAlone(callers[c])

\* generate_insights for one area has returned to thread 1 while thread 2 is
\* between the two reads of its own generate_insights for the other area,
\* both areas having observations and a soil record
C11_Witness ==
    /\ callers[1].pc = "returned"
    /\ callers[1].op = "generate_insights"
    /\ callers[1].area = "Hebbal"
    /\ callers[1].exc = "None"
    /\ "avg_aqi" \in DOMAIN callers[1].value.historical_analysis
    /\ callers[1].value.soil_analysis.soil_type # "Unknown"
    /\ callers[2].pc = "soil"
    /\ callers[2].area = "Anekal"
    /\ "avg_aqi" \in DOMAIN callers[2].h

\* the absorption scores as the specification lists them
ListedAbsorption(soil_type) ==
    CASE soil_type = "Clayey Soil" -> 2
      [] soil_type = "Red Loamy Soil" -> 7
      [] soil_type = "Laterite Soil" -> 5
      [] soil_type = "Sandy Soil" -> 9
      [] soil_type = "Black Cotton Soil" -> 1
      [] soil_type = "Alluvial Soil" -> 6
      [] OTHER -> 5

SoilRecords(area) == FilterArea(soil_elevation_data, area)

\* C12: analyze_soil_characteristics never fails on a soil type; for an area
\* present in the soil table the water_absorption_score it returns is the one
\* listed for the soil type of the area's record (2, 7, 5, 9, 1, 6 for Clayey,
\* Red Loamy, Laterite, Sandy, Black Cotton, Alluvial Soil) and 5 for any
\* other soil type, whatever the elevation and the area.
C12_AbsorptionBySoilType ==
    ret.op = "analyze_soil_characteristics" =>
        /\ ret.exc = "None"
        /\ SoilRecords(ret.args[1]) # <<>> =>
              /\ ret.value.soil_type = SoilRecords(ret.args[1])[1]["Soil Type"]
              /\ ret.value.water_absorption_score = ListedAbsorption(ret.value.soil_type)

\* a soil type that is not one of the six, though it contains "Clayey"
C12_Witness ==
    /\ Returned("analyze_soil_characteristics")
    /\ SoilRecords(ret.args[1]) # <<>>
    /\ ret.value.soil_type = "Silty Clayey Loam"
    /\ ret.value.water_absorption_score = 5

\* the soil table without the records of the area that follow its first one
FirstRecordOnly(df, area) ==
    [df EXCEPT !.rows =
        LET first == CHOOSE i \in 1..Len(df.rows) :
                        /\ df.rows[i]["Area"] = area
                        /\ \A j \in 1..(i - 1) : df.rows[j]["Area"] # area
            keep  == {i \in 1..Len(df.rows) : df.rows[i]["Area"] # area \/ i = first}
            Pick[n \in 0..Len(df.rows)] ==
                IF n = 0 THEN <<>>
                ELSE IF n \in keep THEN Append(Pick[n - 1], df.rows[n]) ELSE Pick[n - 1]
        IN  Pick[Len(df.rows)]]

\* C14: for an area with one or more records in the soil table, the soil
\* profile analyze_soil_characteristics returns has the soil type and the
\* elevation of the area's first record in table order, and is a profile the
\* method returns on the table from which the later records of the area are
\* removed; the same holds for the soil_analysis of generate_insights.
C14_FirstRecordOnly ==
    /\ (Returned("analyze_soil_characteristics") /\ SoilRecords(ret.args[1]) # <<>>) =>
          /\ ret.value.soil_type = SoilRecords(ret.args[1])[1]["Soil Type"]
          /\ ret.value.elevation = SoilRecords(ret.args[1])[1]["Elevation"]
          /\ Return(ret.value) \in
                analyze_soil_characteristics(
                    FirstRecordOnly(soil_elevation_data, ret.args[1]),
                    soil_absorption_map, ret.args[1])
    /\ (Returned("generate_insights") /\ SoilRecords(ret.args[1]) # <<>>) =>
          Return(ret.value.soil_analysis) \in
                analyze_soil_characteristics(
                    FirstRecordOnly(soil_elevation_data, ret.args[1]),
                    soil_absorption_map, ret.args[1])

\* two records of the area asked for, of different soil type and elevation
C14_Witness ==
    /\ Returned("analyze_soil_characteristics")
    /\ Len(SoilRecords(ret.args[1])) = 2
    /\ SoilRecords(ret.args[1])[1]["Soil Type"] = "Sandy Soil"
    /\ SoilRecords(ret.args[1])[2]["Soil Type"] = "Black Cotton Soil"
    /\ ret.value.water_absorption_score = 9

\* the observations of the area, in table order
ObservationsOf(area) == FilterArea(aqi_rainfall_data, area)

\* the least-squares slope of y[1], ..., y[n] against 0, ..., n-1 (n > 1):
\* sum (i - mean i)(y[i] - mean y) / sum (i - mean i)^2
SlopeOnIndex(y) ==
    LET n    == Len(y)
        ibar == Norm(n - 1, 2)
        ybar == RDiv(RSum(y), R(n))
        num  == RSum([i \in 1..n |-> RMul(RSub(R(i - 1), ibar), RSub(y[i], ybar))])
        den  == RSum([i \in 1..n |-> RMul(RSub(R(i - 1), ibar), RSub(R(i - 1), ibar))])
    IN  RDiv(num, den)

\* the label of a slope for the threshold t: up above t, down below -t, and
\* "stable" from -t to t, both ends included
Label(slope, t, up, down) ==
    IF RLt(R(t), slope) THEN up ELSE IF RLt(slope, R(-t)) THEN down ELSE "stable"

\* the labels of a slope when the ends -t and t may also get the label next to them
LabelsOffThreshold(slope, t, up, down) ==
    IF slope = R(t) THEN {up, "stable"}
    ELSE IF slope = R(-t) THEN {down, "stable"}
    ELSE {Label(slope, t, up, down)}

C15_StoredResultRendered ==
    (/\ run # NoRun
     /\ "insights" \in DOMAIN session_state
     /\ Renderable(session_state["insights"])) =>
        /\ run.exc = "None"
        /\ ResultButtons \subseteq run.widgets

(***************************************************************************)
(* Properties of the forecast job                                          *)
(***************************************************************************)
Trained == pc \in {"trained", "predicted", "done"}
Predicted == pc \in {"predicted", "done"}
DataAreas == {data.rows[i]["Area"] : i \in 1..Len(data.rows)}
Observations(area) == Len(FilterArea(data, area))
Qualifying == {a \in DataAreas : Observations(a) >= 2}
FirstIndex(area) ==
    CHOOSE i \in 1..Len(data.rows) :
        /\ data.rows[i]["Area"] = area
        /\ \A j \in 1..(i - 1) : data.rows[j]["Area"] # area

\* C8 as stated: no row of the output table has an area with fewer than 2
\* observations together with a year in 2025..2030.
C8_NoRowInForecastYears ==
    Predicted =>
        \A a \in Areas :
            Observations(a) < 2 =>
                \A i \in 1..Len(results_df.rows) :
                    ~(/\ results_df.rows[i]["Area"] = a
                      /\ results_df.rows[i]["Year"] \in 2025..2030)

\* C8 as amended: an area with fewer than 2 observations gets no model, and
\* no projected row (a row after the historical rows) of the output table has
\* that area; its own historical rows are kept, whatever their year.
C8_NoModelNoProjectedRow ==
    /\ Trained =>
          \A a \in Areas :
              Observations(a) < 2 => \A k \in 1..Len(models) : models[k].area # a
    /\ Predicted =>
          \A a \in Areas :
              Observations(a) < 2 =>
                  \A i \in (Len(data.rows) + 1)..Len(results_df.rows) :
                      results_df.rows[i]["Area"] # a

\* one area has a single observation, another one has a model and projected rows
C8_Witness ==
    /\ Predicted
    /\ \E a \in Areas : Observations(a) = 1
    /\ Qualifying # {}
    /\ Len(results_df.rows) > Len(data.rows)

\* C9: the output table is the historical rows, unchanged and in table order,
\* followed by exactly one projected row per qualifying area (at least 2
\* observations) and year 2025..2030, grouped by area in the order in which
\* the areas first occur in the input table, years ascending within an area.
C9_OutputOrder ==
    Predicted =>
        LET rows == results_df.rows
            n    == Len(data.rows)
            m    == 6 * Cardinality(Qualifying)
        IN  /\ n = Len(files.aqi.rows)
            /\ Len(rows) = n + m
            /\ \A i \in 1..n :
                  /\ DOMAIN rows[i] = {"Year", "Area", "AQI", "Rainfall_mm"}
                  /\ rows[i]["Year"] = files.aqi.rows[i]["Year"]
                  /\ rows[i]["Area"] = files.aqi.rows[i]["Area"]
                  /\ rows[i]["AQI"] = files.aqi.rows[i]["AQI"]
                  /\ rows[i]["Rainfall_mm"] = data.rows[i]["Rainfall_numeric"]
            /\ \A j \in 1..m :
                  /\ rows[n + j]["Year"] = 2025 + ((j - 1) % 6)
                  /\ rows[n + j]["Area"] \in Qualifying
            /\ \A j \in 1..m, k \in 1..m :
                  j < k =>
                     IF (j - 1) \div 6 = (k - 1) \div 6
                     THEN rows[n + j]["Area"] = rows[n + k]["Area"]
                     ELSE FirstIndex(rows[n + j]["Area"]) < FirstIndex(rows[n + k]["Area"])

\* two qualifying areas whose rows interleave, "Hebbal" met first
C9_Witness ==
    /\ Predicted
    /\ Cardinality(Qualifying) = 2
    /\ data.rows[1]["Area"] = "Hebbal"
    /\ data.rows[2]["Area"] = "Anekal"

FitsExactly(k, area_data) ==
    \A i \in 1..Len(area_data) :
        /\ Predict(models[k].aqi_model, area_data[i]["Year"]) = R(area_data[i]["AQI"])
        /\ Predict(models[k].rainfall_model, area_data[i]["Year"]) =
              area_data[i]["Rainfall_numeric"]

\* C10 as stated: for every area with exactly 2 historical points the two
\* fitted lines reproduce both (year, value) pairs with zero residual.
C10_TwoPointsExact ==
    Trained =>
        \A a \in DataAreas :
            Observations(a) = 2 =>
                \E k \in 1..Len(models) :
                    models[k].area = a /\ FitsExactly(k, FilterArea(data, a))

\* C10 as amended: for every area with exactly 2 historical points at two
\* different years the two fitted lines reproduce both (year, value) pairs
\* with zero residual.
C10_TwoDistinctYearsExact ==
    Trained =>
        \A a \in DataAreas :
            LET area_data == FilterArea(data, a)
            IN  (Len(area_data) = 2 /\ area_data[1]["Year"] # area_data[2]["Year"]) =>
                    \E k \in 1..Len(models) :
                        models[k].area = a /\ FitsExactly(k, area_data)

\* an area with two points at different years and with different values
C10_Witness ==
    /\ Trained
    /\ \E a \in DataAreas :
          LET area_data == FilterArea(data, a)
          IN  /\ Len(area_data) = 2
              /\ area_data[1]["Year"] # area_data[2]["Year"]
              /\ area_data[1]["AQI"] # area_data[2]["AQI"]

====
